---- MODULE Spec2Model ----
(***************************************************************************)
(* Cycle-accurate model of src/litex_hdmi/patterns.py.                     *)
(*                                                                         *)
(* Every module of patterns.py is synchronous Migen logic.  A state of the *)
(* model is one clock cycle: the registers of the module together with the *)
(* values its inputs carry during that cycle.  Combinational outputs are   *)
(* operators over that state.  A step is one clock edge: every register    *)
(* takes the value its sync statements compute from the current cycle, and *)
(* the environment presents the next cycle's inputs.                       *)
(*                                                                         *)
(* Among the specifications that share the module:                         *)
(*   SpecReader  WishboneReader on a bus with an arbitrary ack delay       *)
(*               (SpecReaderFair: the bus acknowledges again and again);   *)
(*   Spec        a gated pattern module (HorizontalBarsPattern,            *)
(*               SingleSpritePattern, MovingSpritePattern,                 *)
(*               MovingSpritePatternFromFile share the activation FSM      *)
(*               verbatim) fed by an arbitrary TimingSample sequence;      *)
(*   SpecTiming  the same module fed by a timing source that holds a       *)
(*               sample until it is accepted and then advances.            *)
(***************************************************************************)
EXTENDS Integers, Naturals, Sequences, FiniteSets, TLC

\* ------------------------------------------------------------------ bounds
\* Largest value of the caller's addr input (32 bits in the source).
MaxAddr == 9
\* Largest value on bus.dat_r (32 bits in the source).
MaxData == 2
\* Largest hcount / vcount an arbitrary TimingSample carries.
MaxCount == 1
\* Samples per line and lines per frame of the conforming timing source.
HScan == 5
VScan == 5
\* log2 of the sprite's width and height in the scaled sprite geometry.
SpriteBits == 1
\* Tiles per row and per column of the scaled tilemap screen.
TilesX == 3
TilesY == 3
\* log2 of the tile width and height, and the number of tiles in the tile ROM.
TileBits == 1
TileCount == 3
\* Blanking columns after each line and blanking rows after each frame.
Blank == 1
\* Number of preceding cycles whose coordinates are remembered.
TileLag == 3
\* Stripes of the bars renderer, and the width of its screen; a boundary
\* register (32 bits in the specification) holds 0..BarsWidth.
NStripes == 3
BarsWidth == 6
\* Samples per line and lines per frame of the timing source that feeds
\* HorizontalBarsPattern: more than one band of 8 lines.
BarScanH == 3
BarScanV == 10

VARIABLES
    \* WishboneReader
    reader_state,   \* self.fsm state: "IDLE" | "READ"
    data_reg,       \* data_reg
    ready_reg,      \* ready_reg (reset=1)
    start,          \* self.start, this cycle
    addr,           \* self.addr, this cycle
    bus_ack,        \* self.bus.ack, this cycle
    bus_dat_r,      \* self.bus.dat_r, this cycle
    \* gated pattern module
    fsm_state,      \* activation FSM state: "IDLE" | "RUN"
    self_enable,    \* self.enable, this cycle
    multireg,       \* the two registers of MultiReg(self.enable, enable)
    vtg_sink,       \* the input TimingSample of this cycle
    source_ready,   \* self.source.ready, this cycle (driven by the sink)
    fresh,          \* history: in RUN and nothing emitted since activation
    frame_emitted,  \* history: samples of the timing source's current frame emitted
    bar,            \* bar, the colour index register of HorizontalBarsPattern
    \* sprite modules (MovingSpritePattern, MovingSpritePatternFromFile)
    geom,           \* constructor parameters: hres, vres, SPRITE_W, SPRITE_H, variant
    sprite_x,       \* sprite_x
    sprite_y,       \* sprite_y
    dir_x,          \* dir_x (reset=1)
    dir_y,          \* dir_y (reset=1)
    vsync_prev,     \* vsync_prev
    sprite_adr_reg, \* address register of sprite_port, the ROM's synchronous read port
    \* TilemapRenderer
    tilemap_data,      \* constructor parameter tilemap_data (content of tilemap_rom)
    tilemap_port_adr,  \* self.tilemap_port.adr, assigned in self.sync
    tilemap_memadr,    \* address register of tilemap_port inside tilemap_rom
    tile_id,           \* tile_id
    tile_rom_memadr,   \* address register of tile_rom_port inside tile_rom
    coord_hist,        \* history: the coordinates of the preceding cycles, newest first
    \* stripe selection of the bars renderer
    boundary,          \* the stripe boundary registers
    bars_hcount,       \* hcount of the pixel being rendered
    \* asset files (tileset_to_mem.py, logo_creation.py) and their loader
    px,                \* the pixel being converted: <<r, g, b>>
    mem_line,          \* the line written to the .mem file, a sequence of characters
    sprite_word        \* the ROM word parsed from the line, or -1 before loading

readerVars == <<reader_state, data_reg, ready_reg, start, addr, bus_ack, bus_dat_r>>
patternVars == <<fsm_state, self_enable, multireg, vtg_sink, source_ready, fresh,
                 frame_emitted>>
spriteVars == <<geom, sprite_x, sprite_y, dir_x, dir_y, vsync_prev, sprite_adr_reg>>
tileVars == <<tilemap_data, tilemap_port_adr, tilemap_memadr, tile_id, tile_rom_memadr,
              coord_hist>>
barsVars == <<boundary, bars_hcount>>
assetVars == <<px, mem_line, sprite_word>>
vars == <<reader_state, data_reg, ready_reg, start, addr, bus_ack, bus_dat_r,
          fsm_state, self_enable, multireg, vtg_sink, source_ready, fresh,
          frame_emitted,
          geom, sprite_x, sprite_y, dir_x, dir_y, vsync_prev, sprite_adr_reg,
          tilemap_data, tilemap_port_adr, tilemap_memadr, tile_id, tile_rom_memadr,
          coord_hist, boundary, bars_hcount, px, mem_line, sprite_word, bar>>

\* Components a specification does not clock.
othersOfReader == <<patternVars, spriteVars, tileVars, barsVars, assetVars, bar>>
othersOfGate == <<readerVars, spriteVars, tileVars, barsVars, assetVars, bar>>
othersOfSprite == <<readerVars, tileVars, barsVars, assetVars, bar>>
othersOfTilemap == <<readerVars, fsm_state, self_enable, multireg, fresh, frame_emitted,
                     spriteVars, barsVars, assetVars, bar>>
othersOfBars == <<readerVars, patternVars, spriteVars, tileVars, assetVars, bar>>
othersOfAsset == <<readerVars, patternVars, spriteVars, tileVars, barsVars, bar>>

\* ================================================================ WishboneReader

\* x >> n on unsigned values.
Shr(x, n) == x \div (2 ^ n)

\* Combinational bus outputs.  A Migen comb signal that no active statement
\* drives takes its reset value 0.
bus_stb == reader_state = "READ"
bus_cyc == reader_state = "READ"
\* Mutant: the byte address is driven without the word alignment.
bus_adr_Unshifted == IF reader_state = "READ" THEN addr ELSE 0
bus_adr == IF reader_state = "READ" THEN Shr(addr, 2) ELSE 0
bus_sel == IF reader_state = "READ" THEN 15 ELSE 0
bus_we  == FALSE

\* self.data, self.ready
data  == data_reg
ready == ready_reg

\* Mutant: READ returns to IDLE after one cycle, acknowledged or not.
ReaderNextState_NoWait(s, st, ack) ==
    IF s = "IDLE"
    THEN IF st THEN "READ" ELSE "IDLE"
    ELSE "IDLE"

\* Mutant: a start that is high in the cycle of ack chains the next read.
ReaderNextState_Chained(s, st, ack) ==
    IF s = "IDLE"
    THEN IF st THEN "READ" ELSE "IDLE"
    ELSE IF ack /\ ~st THEN "IDLE" ELSE "READ"

\* Next state of the reader FSM.
ReaderNextState(s, st, ack) ==
    IF s = "IDLE"
    THEN IF st THEN "READ" ELSE "IDLE"
    ELSE IF ack THEN "IDLE" ELSE "READ"

\* Mutant: the data lines are captured on every READ cycle.
DataRegNext_NoAckGate(s, ack, dat, old) ==
    IF s = "READ" THEN dat ELSE old

\* NextValue(data_reg, self.bus.dat_r) in READ under If(self.bus.ack).
DataRegNext(s, ack, dat, old) ==
    IF s = "READ" /\ ack THEN dat ELSE old

\* NextValue(ready_reg, 1) in READ under ack, and
\* self.sync += If(fsm.ongoing("READ") & ~self.bus.ack, ready_reg.eq(0)).
ReadyRegNext(s, ack, old) ==
    IF s = "READ"
    THEN IF ack THEN TRUE ELSE FALSE
    ELSE old

\* The bus and the caller present the next cycle's inputs.
ReaderInputs ==
    /\ start' \in BOOLEAN
    /\ addr' \in 0..MaxAddr
    /\ bus_ack' \in BOOLEAN
    /\ bus_dat_r' \in 0..MaxData

ReaderEdge ==
    /\ reader_state' = ReaderNextState(reader_state, start, bus_ack)
    /\ data_reg' = DataRegNext(reader_state, bus_ack, bus_dat_r, data_reg)
    /\ ready_reg' = ReadyRegNext(reader_state, bus_ack, ready_reg)
    /\ ReaderInputs
    /\ UNCHANGED othersOfReader

\* A clock edge with the FSM in IDLE.
ReaderIdle ==
    /\ reader_state = "IDLE"
    /\ ReaderEdge

\* A clock edge with the FSM in READ.
ReaderRead ==
    /\ reader_state = "READ"
    /\ ReaderEdge

ReaderInit ==
    /\ reader_state = "IDLE"
    /\ data_reg = 0
    /\ ready_reg = TRUE
    /\ start \in BOOLEAN
    /\ addr \in 0..MaxAddr
    /\ bus_ack \in BOOLEAN
    /\ bus_dat_r \in 0..MaxData

\* The pattern module at rest, for the specifications that clock only the reader.
PatternIdle ==
    /\ fsm_state = "IDLE"
    /\ self_enable = TRUE
    /\ multireg = <<FALSE, FALSE>>
    /\ vtg_sink = [valid |-> FALSE, first |-> FALSE, last |-> FALSE, de |-> FALSE,
                   hsync |-> FALSE, vsync |-> FALSE, hcount |-> 0, vcount |-> 0]
    /\ source_ready = FALSE
    /\ fresh = FALSE
    /\ frame_emitted = 0

\* The sprite registers at reset, for the specifications that do not clock them.
SpriteAtRest ==
    /\ geom = [hres |-> HScan - 1, vres |-> VScan - 1,
               w |-> 2 ^ SpriteBits, h |-> 2 ^ SpriteBits, fromFile |-> FALSE]
    /\ sprite_x = 0
    /\ sprite_y = 0
    /\ dir_x = TRUE
    /\ dir_y = TRUE
    /\ vsync_prev = FALSE
    /\ sprite_adr_reg = 0

\* The tilemap renderer, the stripe registers and the asset converter before
\* use, for the specifications that do not clock them.
TilemapAtRest ==
    /\ tilemap_data = <<>>
    /\ tilemap_port_adr = 0
    /\ tilemap_memadr = 0
    /\ tile_id = 0
    /\ tile_rom_memadr = 0
    /\ coord_hist = <<>>

BarsAtRest ==
    /\ boundary = <<>>
    /\ bars_hcount = 0

AssetAtRest ==
    /\ px = <<0, 0, 0>>
    /\ mem_line = <<>>
    /\ sprite_word = -1

InitReader ==
    /\ ReaderInit /\ PatternIdle /\ SpriteAtRest
    /\ TilemapAtRest /\ BarsAtRest /\ AssetAtRest /\ bar = 0

NextReader == ReaderIdle \/ ReaderRead

SpecReader == InitReader /\ [][NextReader]_vars

\* A clock edge after which the bus drives ack.
AckArrives == NextReader /\ bus_ack'

\* The clock never stops, and the bus acknowledges again and again.
SpecReaderFair == SpecReader /\ WF_vars(NextReader) /\ WF_vars(AckArrives)

\* ================================================================ gated pattern
\* HorizontalBarsPattern (lines 110-142), SingleSpritePattern (161-225),
\* MovingSpritePattern (230-332) and MovingSpritePatternFromFile (336-445)
\* build the same enable synchronizer, the same ResetInserter-wrapped FSM with
\* the same IDLE state, and a RUN state that passes the same six stream
\* fields: HorizontalBarsPattern by explicit assignments, the sprite modules
\* by vtg_sink.connect(source, keep={valid, ready, last, de, hsync, vsync}).

TimingSamples ==
    [valid: BOOLEAN, first: BOOLEAN, last: BOOLEAN, de: BOOLEAN,
     hsync: BOOLEAN, vsync: BOOLEAN, hcount: 0..MaxCount, vcount: 0..MaxCount]

\* self.comb += fsm.reset.eq(~self.enable)
fsm_reset == ~self_enable

\* enable: the output of MultiReg(self.enable, enable), its last register.
enable == multireg[2]

\* Mutant: activation does not look at first.
FrameStart_NoFirst(s) == s.valid /\ s.hcount = 0 /\ s.vcount = 0

\* The condition of the If in fsm.act("IDLE").
FrameStart(s) == s.valid /\ s.first /\ s.hcount = 0 /\ s.vcount = 0

\* Mutants: ready asserted upstream in every state; valid, last and vsync
\* driven outside the FSM or not at all.
vtg_sink_ready_Always == TRUE
source_valid_Ungated == vtg_sink.valid
source_last_Dropped == FALSE
source_vsync_Dropped == FALSE

\* Mutant: IDLE passes the downstream ready upstream instead of draining.
vtg_sink_ready_FromSource == source_ready

\* Combinational outputs of the FSM's current state.  A signal the current
\* state does not drive is 0.
vtg_sink_ready == IF fsm_state = "IDLE" THEN TRUE ELSE source_ready
source_valid == IF fsm_state = "RUN" THEN vtg_sink.valid ELSE FALSE
source_last  == IF fsm_state = "RUN" THEN vtg_sink.last  ELSE FALSE
source_de    == IF fsm_state = "RUN" THEN vtg_sink.de    ELSE FALSE
source_hsync == IF fsm_state = "RUN" THEN vtg_sink.hsync ELSE FALSE
source_vsync == IF fsm_state = "RUN" THEN vtg_sink.vsync ELSE FALSE
\* first is in no keep set and in no assignment of RUN: never driven.
source_first == FALSE

\* TilemapRenderer has no FSM: the connect is an unconditional comb statement.
tilemap_source_valid == vtg_sink.valid
tilemap_source_last  == vtg_sink.last
tilemap_source_first == FALSE
tilemap_vtg_sink_ready == source_ready

\* Mutant: the reset is looked at only in RUN, so a frame start wins in IDLE.
GateNextState_NoPriority(s, rst, sample) ==
    IF s = "IDLE"
    THEN IF FrameStart(sample) THEN "RUN" ELSE "IDLE"
    ELSE IF rst THEN "IDLE" ELSE "RUN"

\* Next state of the activation FSM; ResetInserter gives the reset priority.
GateNextState(s, rst, sample) ==
    IF rst THEN "IDLE"
    ELSE IF s = "IDLE"
         THEN IF FrameStart(sample) THEN "RUN" ELSE "IDLE"
         ELSE "RUN"

\* MultiReg: two registers in series clocked in the module's domain.
MultiRegNext(regs, i) == <<i, regs[1]>>

\* A sample leaves the module in this cycle.
OutputTransfer == source_valid /\ source_ready
\* A sample is taken from the timing source in this cycle.
InputTransfer == vtg_sink.valid /\ vtg_sink_ready

\* The registers of the module at a clock edge.
PatternEdge ==
    /\ fsm_state' = GateNextState(fsm_state, fsm_reset, vtg_sink)
    /\ multireg' = MultiRegNext(multireg, self_enable)
    /\ fresh' = IF fsm_state = "IDLE"
                THEN fsm_state' = "RUN"
                ELSE fsm_state' = "RUN" /\ fresh /\ ~OutputTransfer
    /\ self_enable' \in BOOLEAN
    /\ source_ready' \in BOOLEAN

\* A clock edge with the gate in IDLE, any next input sample.
GateIdle ==
    /\ fsm_state = "IDLE"
    /\ PatternEdge
    /\ vtg_sink' \in TimingSamples
    /\ UNCHANGED frame_emitted
    /\ UNCHANGED othersOfGate

\* A clock edge with the gate in RUN, any next input sample.
GateRun ==
    /\ fsm_state = "RUN"
    /\ PatternEdge
    /\ vtg_sink' \in TimingSamples
    /\ UNCHANGED frame_emitted
    /\ UNCHANGED othersOfGate

PatternInit ==
    /\ fsm_state = "IDLE"
    /\ self_enable \in BOOLEAN
    /\ multireg = <<FALSE, FALSE>>
    /\ source_ready \in BOOLEAN
    /\ fresh = FALSE
    /\ frame_emitted = 0

\* The reader at rest, for the specifications that clock only the pattern.
ReaderAtRest ==
    /\ reader_state = "IDLE"
    /\ data_reg = 0
    /\ ready_reg = TRUE
    /\ start = FALSE
    /\ addr = 0
    /\ bus_ack = FALSE
    /\ bus_dat_r = 0

Init ==
    /\ ReaderAtRest
    /\ SpriteAtRest
    /\ TilemapAtRest /\ BarsAtRest /\ AssetAtRest /\ bar = 0
    /\ PatternInit
    /\ vtg_sink \in TimingSamples

Next == GateIdle \/ GateRun

Spec == Init /\ [][Next]_vars

\* ---------------------------------------------------------------- timing source
\* The environment of SpecTiming: a timing source that offers the samples of
\* an HScan x VScan frame in raster order, holds an offered sample until it is
\* accepted (valid && ready) and then advances to the next coordinate.

Sample(h, v, valid) ==
    [valid |-> valid,
     first |-> (h = 0 /\ v = 0),
     last  |-> (h = HScan - 1 /\ v = VScan - 1),
     de    |-> (h < HScan - 1 /\ v < VScan - 1),
     hsync |-> (h = HScan - 1),
     vsync |-> (v = VScan - 1),
     hcount |-> h,
     vcount |-> v]

NextH(h) == IF h = HScan - 1 THEN 0 ELSE h + 1
NextV(h, v) == IF h = HScan - 1 THEN (IF v = VScan - 1 THEN 0 ELSE v + 1) ELSE v

TimingSourceStep ==
    IF InputTransfer
    THEN \E nv \in BOOLEAN :
            vtg_sink' = Sample(NextH(vtg_sink.hcount),
                               NextV(vtg_sink.hcount, vtg_sink.vcount), nv)
    ELSE IF vtg_sink.valid
         THEN vtg_sink' = vtg_sink
         ELSE \E nv \in BOOLEAN :
                 vtg_sink' = Sample(vtg_sink.hcount, vtg_sink.vcount, nv)

\* Position of a sample in its frame, in raster order.
SampleIndex(s) == s.vcount * HScan + s.hcount
FrameSize == HScan * VScan
EndOfFrame(s) == s.hcount = HScan - 1 /\ s.vcount = VScan - 1

\* History: how many samples of the frame the source is in have been emitted.
FrameHistory ==
    frame_emitted' =
        IF InputTransfer
        THEN IF EndOfFrame(vtg_sink) THEN 0
             ELSE frame_emitted + (IF OutputTransfer THEN 1 ELSE 0)
        ELSE frame_emitted

\* A clock edge with the gate in IDLE, fed by the timing source.
TimedIdle ==
    /\ fsm_state = "IDLE"
    /\ PatternEdge
    /\ TimingSourceStep
    /\ FrameHistory
    /\ UNCHANGED othersOfGate

\* A clock edge with the gate in RUN, fed by the timing source.
TimedRun ==
    /\ fsm_state = "RUN"
    /\ PatternEdge
    /\ TimingSourceStep
    /\ FrameHistory
    /\ UNCHANGED othersOfGate

InitTiming ==
    /\ ReaderAtRest
    /\ SpriteAtRest
    /\ TilemapAtRest /\ BarsAtRest /\ AssetAtRest /\ bar = 0
    /\ PatternInit
    /\ \E nv \in BOOLEAN : vtg_sink = Sample(0, 0, nv)

NextTiming == TimedIdle \/ TimedRun

SpecTiming == InitTiming /\ [][NextTiming]_vars

\* A clock edge at which the sample on vtg_sink is taken.
TakeSample == NextTiming /\ InputTransfer

\* A clock edge after which the timing source offers a sample it was not
\* offering.
OfferValid == NextTiming /\ ~vtg_sink.valid /\ vtg_sink'.valid

\* The clock does not stop while a sample is being handed over, and the
\* timing source does not stay without a valid sample for ever.  enable and
\* source.ready are left free.
SpecTimingFair == SpecTiming /\ WF_vars(TakeSample) /\ WF_vars(OfferValid)

\* ================================================================ sprite modules
\* MovingSpritePattern (lines 228-332) and MovingSpritePatternFromFile (lines
\* 334-445): the activation gate above, the bounce registers, and a sprite ROM
\* read through a synchronous port.  The two differ in the sprite size, in the
\* ROM content (a red square / logo.mem) and in the Mux that clamps the
\* offsets of an invisible coordinate to 0 (FromFile only).

\* The modules as the source builds them (hres=640, vres=480 by default and in
\* sipeed_tang_nano_9k.py).
RealGeometries ==
    {[hres |-> 640, vres |-> 480, w |-> 16, h |-> 16, fromFile |-> FALSE],
     [hres |-> 640, vres |-> 480, w |-> 64, h |-> 64, fromFile |-> TRUE]}

\* The same modules scaled to the active area of the timing source.
ScaledGeometries ==
    {[hres |-> HScan - 1, vres |-> VScan - 1,
      w |-> 2 ^ SpriteBits, h |-> 2 ^ SpriteBits, fromFile |-> f] : f \in BOOLEAN}

hres == geom.hres
vres == geom.vres
SPRITE_W == geom.w
SPRITE_H == geom.h

\* migen bits_for(n): the bits of an unsigned signal able to hold n.
RECURSIVE BitsFor(_)
BitsFor(n) == IF n < 2 THEN 1 ELSE 1 + BitsFor(n \div 2)

\* An assignment to an unsigned signal of the given width keeps the low bits.
Trunc(v, bits) == v % (2 ^ bits)

\* v[lo:hi]
Slice(v, lo, hi) == (v \div (2 ^ lo)) % (2 ^ (hi - lo))

\* Signal(max=m) has bits_for(m - 1) bits.
WidthOfMax(m) == BitsFor(m - 1)

\* Mutant: the sprite moves on the level of vsync, not on its rising edge.
vsync_rise_Level == vtg_sink.vsync

\* vsync_rise
vsync_rise == vtg_sink.vsync /\ ~vsync_prev

\* Mutant: the bounce compares the position alone, without the sprite size.
AxisStep_NoSize(pos, dir, size, res) ==
    IF dir
    THEN IF pos >= res - 1
         THEN [pos |-> pos, dir |-> FALSE]
         ELSE [pos |-> Trunc(pos + 1, WidthOfMax(res)), dir |-> TRUE]
    ELSE IF pos = 0
         THEN [pos |-> pos, dir |-> TRUE]
         ELSE [pos |-> Trunc(pos - 1, WidthOfMax(res)), dir |-> FALSE]

\* Mutant: at the far edge the sprite turns round and steps back at once.
AxisStep_Rebound(pos, dir, size, res) ==
    IF dir
    THEN IF pos + size >= res - 1
         THEN [pos |-> Trunc(pos - 1, WidthOfMax(res)), dir |-> FALSE]
         ELSE [pos |-> Trunc(pos + 1, WidthOfMax(res)), dir |-> TRUE]
    ELSE IF pos = 0
         THEN [pos |-> pos, dir |-> TRUE]
         ELSE [pos |-> Trunc(pos - 1, WidthOfMax(res)), dir |-> FALSE]

\* Mutant: a sprite going down at position 0 stays there and does not turn.
AxisStep_Stuck(pos, dir, size, res) ==
    IF dir
    THEN IF pos + size >= res - 1
         THEN [pos |-> pos, dir |-> FALSE]
         ELSE [pos |-> Trunc(pos + 1, WidthOfMax(res)), dir |-> TRUE]
    ELSE IF pos = 0
         THEN [pos |-> pos, dir |-> FALSE]
         ELSE [pos |-> Trunc(pos - 1, WidthOfMax(res)), dir |-> FALSE]

\* One axis of the sync statement under If(vsync_rise): position and
\* direction after the edge.  The position register is Signal(max=res).
AxisStep(pos, dir, size, res) ==
    IF dir
    THEN IF pos + size >= res - 1
         THEN [pos |-> pos, dir |-> FALSE]
         ELSE [pos |-> Trunc(pos + 1, WidthOfMax(res)), dir |-> TRUE]
    ELSE IF pos = 0
         THEN [pos |-> pos, dir |-> TRUE]
         ELSE [pos |-> Trunc(pos - 1, WidthOfMax(res)), dir |-> FALSE]

\* Content of the sprite ROM at an address: the red square of
\* MovingSpritePattern, or a logo.mem in which every address holds a
\* different colour.  Words beyond the initialised content read 0.
SpriteData(a) ==
    IF a < 0 \/ a >= SPRITE_W * SPRITE_H THEN 0
    ELSE IF geom.fromFile THEN a + 1 ELSE 16711680

sprite_visible ==
    /\ vtg_sink.hcount >= sprite_x /\ vtg_sink.hcount < sprite_x + SPRITE_W
    /\ vtg_sink.vcount >= sprite_y /\ vtg_sink.vcount < sprite_y + SPRITE_H

\* sprite_x_off, sprite_y_off: Signal(max=SPRITE_W), Signal(max=SPRITE_H).
sprite_x_off ==
    Trunc(IF geom.fromFile
          THEN (IF sprite_visible THEN vtg_sink.hcount - sprite_x ELSE 0)
          ELSE vtg_sink.hcount - sprite_x,
          WidthOfMax(SPRITE_W))
sprite_y_off ==
    Trunc(IF geom.fromFile
          THEN (IF sprite_visible THEN vtg_sink.vcount - sprite_y ELSE 0)
          ELSE vtg_sink.vcount - sprite_y,
          WidthOfMax(SPRITE_H))

\* sprite_addr: Signal(max=SPRITE_W * SPRITE_H); sprite_port.adr follows it.
sprite_addr ==
    Trunc(sprite_y_off * SPRITE_W + sprite_x_off, WidthOfMax(SPRITE_W * SPRITE_H))
sprite_port_adr == sprite_addr

\* sprite_port.dat_r: get_port(has_re=False) is a synchronous read port, so
\* the word read is the one at the address registered at the last clock edge.
sprite_port_dat_r == SpriteData(sprite_adr_reg)

\* Mutant: the ROM word is driven out whether the sprite is visible or not.
sprite_source_rgb_NoBlack ==
    IF fsm_state = "RUN"
    THEN <<Slice(sprite_port_dat_r, 16, 24),
           Slice(sprite_port_dat_r, 8, 16),
           Slice(sprite_port_dat_r, 0, 8)>>
    ELSE <<0, 0, 0>>

\* source.r, source.g, source.b of the sprite modules.
sprite_source_rgb ==
    IF fsm_state = "RUN"
    THEN IF sprite_visible
         THEN <<Slice(sprite_port_dat_r, 16, 24),
                Slice(sprite_port_dat_r, 8, 16),
                Slice(sprite_port_dat_r, 0, 8)>>
         ELSE <<0, 0, 0>>
    ELSE <<0, 0, 0>>

\* The sprite registers at a clock edge.
SpriteRegsEdge ==
    /\ vsync_prev' = vtg_sink.vsync
    /\ LET ax == AxisStep(sprite_x, dir_x, SPRITE_W, hres)
           ay == AxisStep(sprite_y, dir_y, SPRITE_H, vres)
       IN  IF vsync_rise
           THEN /\ sprite_x' = ax.pos /\ dir_x' = ax.dir
                /\ sprite_y' = ay.pos /\ dir_y' = ay.dir
           ELSE UNCHANGED <<sprite_x, sprite_y, dir_x, dir_y>>
    /\ sprite_adr_reg' = sprite_port_adr
    /\ UNCHANGED geom

\* The sprite registers after construction.  The ROM port's address register
\* has no reset value: any address.
SpriteInit(geometries) ==
    /\ geom \in geometries
    /\ sprite_x = 0
    /\ sprite_y = 0
    /\ dir_x = TRUE
    /\ dir_y = TRUE
    /\ vsync_prev = FALSE
    /\ sprite_adr_reg \in 0..(geom.w * geom.h - 1)

\* ---- SpecSprite: the modules at their real size.  The timing stream is idle
\* (valid low, coordinate 0) apart from vsync, which is arbitrary; enable and
\* source.ready are held.
IdleStream(vs) ==
    [valid |-> FALSE, first |-> FALSE, last |-> FALSE, de |-> FALSE,
     hsync |-> FALSE, vsync |-> vs, hcount |-> 0, vcount |-> 0]

SpriteClock ==
    /\ PatternEdge
    /\ self_enable' = self_enable
    /\ source_ready' = source_ready
    /\ \E vs \in BOOLEAN : vtg_sink' = IdleStream(vs)
    /\ SpriteRegsEdge
    /\ UNCHANGED frame_emitted
    /\ UNCHANGED othersOfSprite

\* A clock edge on which a vsync rising edge is detected.
SpriteMove ==
    /\ vsync_rise
    /\ SpriteClock

\* A clock edge without a vsync rising edge.
SpriteHold ==
    /\ ~vsync_rise
    /\ SpriteClock

InitSprite ==
    /\ ReaderAtRest
    /\ TilemapAtRest /\ BarsAtRest /\ AssetAtRest /\ bar = 0
    /\ fsm_state = "IDLE"
    /\ self_enable = TRUE
    /\ multireg = <<FALSE, FALSE>>
    /\ source_ready = FALSE
    /\ fresh = FALSE
    /\ frame_emitted = 0
    /\ \E vs \in BOOLEAN : vtg_sink = IdleStream(vs)
    /\ SpriteInit(RealGeometries)

NextSprite == SpriteMove \/ SpriteHold

SpecSprite == InitSprite /\ [][NextSprite]_vars

\* The sync statements execute at every edge of a clock that does not stop.
SpecSpriteFair == SpecSprite /\ WF_vars(NextSprite)

\* ---- SpecRender: the modules scaled to the timing source's frame and fed by
\* it, with arbitrary enable, source.ready and valid.
RenderClock ==
    /\ PatternEdge
    /\ TimingSourceStep
    /\ UNCHANGED frame_emitted
    /\ SpriteRegsEdge
    /\ UNCHANGED othersOfSprite

\* A clock edge of a sprite module with the gate in IDLE.
RenderIdle ==
    /\ fsm_state = "IDLE"
    /\ RenderClock

\* A clock edge of a sprite module with the gate in RUN.
RenderRun ==
    /\ fsm_state = "RUN"
    /\ RenderClock

InitRender ==
    /\ ReaderAtRest
    /\ TilemapAtRest /\ BarsAtRest /\ AssetAtRest /\ bar = 0
    /\ PatternInit
    /\ \E nv \in BOOLEAN : vtg_sink = Sample(0, 0, nv)
    /\ SpriteInit(ScaledGeometries)

NextRender == RenderIdle \/ RenderRun

SpecRender == InitRender /\ [][NextRender]_vars

\* ================================================================ TilemapRenderer
\* TilemapRenderer (lines 55-105), scaled: a screen of TilesX x TilesY tiles of
\* 2^TileBits x 2^TileBits pixels, a tile ROM of TileCount tiles.  The module
\* has no activation gate: the timing stream is connected straight through.
tile_w == 2 ^ TileBits
tile_h == 2 ^ TileBits
screen_w == TilesX * tile_w
screen_h == TilesY * tile_h
tiles_x == screen_w \div tile_w
tiles_y == screen_h \div tile_h
shift_w == TileBits
shift_h == TileBits
mask_w == tile_w - 1
mask_h == tile_h - 1

\* len(tile_rom_data)
tile_rom_depth == tile_w * tile_h * TileCount

\* x & mask for a mask of the form 2^k - 1.
AndMask(x, mask) == x % (mask + 1)

tile_x == Trunc(Shr(vtg_sink.hcount, shift_w), WidthOfMax(tiles_x))
tile_y == Trunc(Shr(vtg_sink.vcount, shift_h), WidthOfMax(tiles_y))
pixel_x == Trunc(AndMask(vtg_sink.hcount, mask_w), WidthOfMax(tile_w))
pixel_y == Trunc(AndMask(vtg_sink.vcount, mask_h), WidthOfMax(tile_h))
tilemap_addr == Trunc(tile_y * tiles_x + tile_x, WidthOfMax(Len(tilemap_data)))

\* self.tilemap_port.re: the port is built with has_re=True and nothing drives
\* re, so it keeps its reset value.
tilemap_port_re == FALSE

\* The words tilemap_rom can return for its registered address.  A read
\* beyond the content is undefined: the least, the largest valid and the
\* greatest 8-bit value stand for its outcomes.
TilemapRead(a) ==
    IF a < Len(tilemap_data) THEN {tilemap_data[a + 1]} ELSE {0, TileCount - 1, 255}

\* Content of tile_rom: every address holds a different colour.
TileRomData(a) == IF a < tile_rom_depth THEN a + 1 ELSE 0

\* self.tile_rom_port.adr
tile_rom_port_adr ==
    Trunc(tile_id * tile_w * tile_h + pixel_y * tile_w + pixel_x,
          WidthOfMax(tile_rom_depth))

\* self.tile_rom_port.dat_r and the colour outputs.
tile_rom_port_dat_r == TileRomData(tile_rom_memadr)
tilemap_source_rgb ==
    <<Slice(tile_rom_port_dat_r, 16, 24), Slice(tile_rom_port_dat_r, 8, 16),
      Slice(tile_rom_port_dat_r, 0, 8)>>

\* The timing source of the tilemap screen: the visible area followed by
\* Blank blanking columns and rows, whose coordinates keep counting.
TileScanW == screen_w + Blank
TileScanH == screen_h + Blank
TileSample(h, v, valid) ==
    [valid  |-> valid,
     first  |-> (h = 0 /\ v = 0),
     last   |-> (h = TileScanW - 1 /\ v = TileScanH - 1),
     de     |-> (h < screen_w /\ v < screen_h),
     hsync  |-> (h >= screen_w),
     vsync  |-> (v >= screen_h),
     hcount |-> h,
     vcount |-> v]

TileSourceStep ==
    \E nv \in BOOLEAN :
        LET h == vtg_sink.hcount
            v == vtg_sink.vcount
            nh == IF h = TileScanW - 1 THEN 0 ELSE h + 1
            nvc == IF h = TileScanW - 1
                   THEN (IF v = TileScanH - 1 THEN 0 ELSE v + 1)
                   ELSE v
        IN  vtg_sink' = IF vtg_sink.valid /\ tilemap_vtg_sink_ready
                        THEN TileSample(nh, nvc, nv)
                        ELSE TileSample(h, v, vtg_sink.valid \/ nv)

\* The coordinate of this cycle and the remembered ones, newest first.
Coordinate == [h |-> vtg_sink.hcount, v |-> vtg_sink.vcount]
CoordWindow == <<Coordinate>> \o coord_hist

\* The registers of TilemapRenderer at a clock edge.
TilemapRegsEdge ==
    /\ tilemap_port_adr' = tilemap_addr
    /\ tilemap_memadr' = IF tilemap_port_re THEN tilemap_port_adr ELSE tilemap_memadr
    /\ tile_id' \in TilemapRead(tilemap_memadr)
    /\ tile_rom_memadr' = tile_rom_port_adr
    /\ coord_hist' = SubSeq(CoordWindow, 1,
                            IF Len(CoordWindow) < TileLag THEN Len(CoordWindow) ELSE TileLag)
    /\ UNCHANGED tilemap_data

TilemapClock ==
    /\ TilemapRegsEdge
    /\ TileSourceStep
    /\ source_ready' \in BOOLEAN
    /\ UNCHANGED othersOfTilemap

\* A clock edge with a coordinate of the visible area on the input.
TilemapVisible ==
    /\ vtg_sink.de
    /\ TilemapClock

\* A clock edge with a blanking coordinate on the input.
TilemapBlanking ==
    /\ ~vtg_sink.de
    /\ TilemapClock

\* Tilemaps of tiles_x * tiles_y entries, each below TileCount.
TileMaps ==
    {[i \in 1..(tiles_x * tiles_y) |-> (i - 1) % TileCount],
     [i \in 1..(tiles_x * tiles_y) |-> ((i - 1) \div tiles_x) % TileCount]}

\* After construction.  self.tilemap_port.adr and tile_id are reset to 0; the
\* address registers inside the memories have no reset value.
InitTilemap ==
    /\ ReaderAtRest
    /\ SpriteAtRest
    /\ BarsAtRest /\ AssetAtRest /\ bar = 0
    /\ fsm_state = "IDLE"
    /\ self_enable = TRUE
    /\ multireg = <<FALSE, FALSE>>
    /\ fresh = FALSE
    /\ frame_emitted = 0
    /\ source_ready \in BOOLEAN
    /\ \E nv \in BOOLEAN : vtg_sink = TileSample(0, 0, nv)
    /\ tilemap_data \in TileMaps
    /\ tilemap_port_adr = 0
    /\ tilemap_memadr \in 0..(2 ^ WidthOfMax(tiles_x * tiles_y) - 1)
    /\ tile_id = 0
    /\ tile_rom_memadr \in 0..(2 ^ WidthOfMax(tile_rom_depth) - 1)
    /\ coord_hist = <<>>

NextTilemap == TilemapVisible \/ TilemapBlanking

SpecTilemap == InitTilemap /\ [][NextTilemap]_vars

\* ================================================================== BarsRenderer
\* The stripe selection of the configurable bars renderer (specification 4.4):
\* one boundary register per stripe, default i * screenW / stripeCount,
\* writable at run time; per pixel the boundaries are scanned in ascending
\* index order and every satisfied one overwrites the selection.  Stripe
\* index i is boundary[i + 1] of the sequence.
DefaultBoundary == [i \in 1..NStripes |-> ((i - 1) * BarsWidth) \div NStripes]

\* Mutant: a boundary is satisfied only by a strictly greater hcount.
Matches_Strict(i) == bars_hcount > boundary[i + 1]

\* hcount >= boundary[i]
Matches(i) == bars_hcount >= boundary[i + 1]

\* The scan from stripe i on, with the selection made so far.
RECURSIVE ScanFrom(_, _)
ScanFrom(i, sel) ==
    IF i >= NStripes THEN sel
    ELSE ScanFrom(i + 1, IF Matches(i) THEN i ELSE sel)

\* barIndex of the pixel; the selection starts at stripe 0.
barIndex == ScanFrom(0, 0)

\* A run-time write of one boundary register.
BarsWrite ==
    /\ \E i \in 1..NStripes, v \in 0..BarsWidth :
            boundary' = [boundary EXCEPT ![i] = v]
    /\ UNCHANGED bars_hcount
    /\ UNCHANGED othersOfBars

\* The next pixel of the line.
BarsPixel ==
    /\ bars_hcount' = (bars_hcount + 1) % BarsWidth
    /\ UNCHANGED boundary
    /\ UNCHANGED othersOfBars

InitBars ==
    /\ ReaderAtRest
    /\ PatternIdle
    /\ SpriteAtRest
    /\ TilemapAtRest /\ AssetAtRest /\ bar = 0
    /\ boundary = DefaultBoundary
    /\ bars_hcount = 0

NextBars == BarsWrite \/ BarsPixel

SpecBars == InitBars /\ [][NextBars]_vars

\* ================================================================= asset files
\* tileset_to_mem.py (lines 14-21) and logo_creation.py (lines 7-15) write one
\* line per pixel, f"{rgb:06x}\n"; MovingSpritePatternFromFile (patterns.py
\* lines 346-348) reads the lines back with int(line.strip(), 16).

\* Largest value of a channel of an "RGB" image.
ChannelMax == 255

\* The pixels converted: every value of one channel beside the extreme and
\* the nibble-boundary values of the two others.
ChannelCorners == {0, 15, 16, ChannelMax}
Pixels ==
    {p \in (0..ChannelMax) \X ChannelCorners \X ChannelCorners : TRUE}
    \cup {p \in ChannelCorners \X (0..ChannelMax) \X ChannelCorners : TRUE}
    \cup {p \in ChannelCorners \X ChannelCorners \X (0..ChannelMax) : TRUE}

\* x << n
Shl(x, n) == x * (2 ^ n)

\* a | b
RECURSIVE BitOr(_, _)
BitOr(a, b) ==
    IF a = 0 THEN b
    ELSE IF b = 0 THEN a
    ELSE (IF a % 2 = 1 \/ b % 2 = 1 THEN 1 ELSE 0) + 2 * BitOr(a \div 2, b \div 2)

\* Mutant: the channels are packed in the order blue, green, red.
PackRGB_Swapped(p) == BitOr(BitOr(Shl(p[3], 16), Shl(p[2], 8)), p[1])

\* rgb = (px[0] << 16) | (px[1] << 8) | px[2]
PackRGB(p) == BitOr(BitOr(Shl(p[1], 16), Shl(p[2], 8)), p[3])

HexDigits == <<"0", "1", "2", "3", "4", "5", "6", "7",
               "8", "9", "a", "b", "c", "d", "e", "f">>
UpperHexDigits == <<"0", "1", "2", "3", "4", "5", "6", "7",
                    "8", "9", "A", "B", "C", "D", "E", "F">>
Whitespace == {" ", "\t", "\n", "\r"}

\* format(v, "x"): the lowercase hex digits of v, most significant first.
RECURSIVE HexString(_)
HexString(v) ==
    IF v < 16 THEN <<HexDigits[v + 1]>>
    ELSE HexString(v \div 16) \o <<HexDigits[(v % 16) + 1]>>

\* The "06" of the format: zeros on the left up to the width.
RECURSIVE ZeroPad(_, _)
ZeroPad(str, width) == IF Len(str) >= width THEN str ELSE ZeroPad(<<"0">> \o str, width)

\* f"{rgb:06x}\n"
FormatLine(v) == ZeroPad(HexString(v), 6) \o <<"\n">>

\* line.strip()
RECURSIVE Strip(_)
Strip(str) ==
    IF str = <<>> THEN str
    ELSE IF Head(str) \in Whitespace THEN Strip(Tail(str))
    ELSE IF str[Len(str)] \in Whitespace THEN Strip(SubSeq(str, 1, Len(str) - 1))
    ELSE str

\* The value of one hex digit, in either case.
DigitValue(c) ==
    CHOOSE d \in 0..15 : HexDigits[d + 1] = c \/ UpperHexDigits[d + 1] = c

\* int(str, 16) of a string of hex digits.
RECURSIVE ParseHex(_)
ParseHex(str) ==
    IF str = <<>> THEN 0
    ELSE 16 * ParseHex(SubSeq(str, 1, Len(str) - 1)) + DigitValue(str[Len(str)])

\* The converter writes the line of the pixel.
WriteLine ==
    /\ mem_line = <<>>
    /\ mem_line' = FormatLine(PackRGB(px))
    /\ UNCHANGED <<px, sprite_word>>
    /\ UNCHANGED othersOfAsset

\* The sprite module reads the line back; blank lines are skipped.
LoadLine ==
    /\ mem_line # <<>>
    /\ sprite_word = -1
    /\ Strip(mem_line) # <<>>
    /\ sprite_word' = ParseHex(Strip(mem_line))
    /\ UNCHANGED <<px, mem_line>>
    /\ UNCHANGED othersOfAsset

InitAsset ==
    /\ ReaderAtRest
    /\ PatternIdle
    /\ SpriteAtRest
    /\ TilemapAtRest /\ BarsAtRest /\ bar = 0
    /\ px \in Pixels
    /\ mem_line = <<>>
    /\ sprite_word = -1

NextAsset == WriteLine \/ LoadLine

SpecAsset == InitAsset /\ [][NextAsset]_vars

\* ================================================================ HorizontalBarsPattern
\* The activation gate above, the register bar and the colour table (lines
\* 108-155).  SpecHBars feeds the module from a timing source that offers the
\* samples of a BarScanH x BarScanV frame in raster order, holds an offered
\* sample until it is accepted and then advances.

BarSample(h, v, valid) ==
    [valid |-> valid,
     first |-> (h = 0 /\ v = 0),
     last  |-> (h = BarScanH - 1 /\ v = BarScanV - 1),
     de    |-> (h < BarScanH - 1 /\ v < BarScanV - 1),
     hsync |-> (h = BarScanH - 1),
     vsync |-> (v = BarScanV - 1),
     hcount |-> h,
     vcount |-> v]

BarSourceStep ==
    LET h == vtg_sink.hcount
        v == vtg_sink.vcount
    IN  IF InputTransfer
        THEN \E nv \in BOOLEAN :
                vtg_sink' = BarSample(IF h = BarScanH - 1 THEN 0 ELSE h + 1,
                                      IF h = BarScanH - 1
                                      THEN (IF v = BarScanV - 1 THEN 0 ELSE v + 1)
                                      ELSE v,
                                      nv)
        ELSE IF vtg_sink.valid
             THEN vtg_sink' = vtg_sink
             ELSE \E nv \in BOOLEAN : vtg_sink' = BarSample(h, v, nv)

\* color_bar
color_bar ==
    <<<<255, 255, 255>>, <<255, 255, 0>>, <<0, 255, 255>>, <<0, 255, 0>>,
      <<255, 0, 255>>, <<255, 0, 0>>, <<0, 0, 255>>, <<0, 0, 0>>>>

\* source.r, source.g, source.b: self.comb += Case(bar, cases).
hbars_source_rgb == color_bar[bar + 1]

\* The register bar at a clock edge: NextValue in RUN (vcount[3:] assigned to
\* the 3-bit bar), reset with the FSM.
BarEdge ==
    bar' = IF fsm_reset THEN 0
           ELSE IF fsm_state = "RUN" /\ source_valid /\ source_ready /\ source_de
                THEN Trunc(Shr(vtg_sink.vcount, 3), 3)
                ELSE bar

HBarsIdle ==
    /\ fsm_state = "IDLE"
    /\ PatternEdge
    /\ BarEdge
    /\ BarSourceStep
    /\ UNCHANGED frame_emitted
    /\ UNCHANGED <<readerVars, spriteVars, tileVars, barsVars, assetVars>>

HBarsRun ==
    /\ fsm_state = "RUN"
    /\ PatternEdge
    /\ BarEdge
    /\ BarSourceStep
    /\ UNCHANGED frame_emitted
    /\ UNCHANGED <<readerVars, spriteVars, tileVars, barsVars, assetVars>>

InitHBars ==
    /\ ReaderAtRest
    /\ SpriteAtRest
    /\ TilemapAtRest /\ BarsAtRest /\ AssetAtRest
    /\ PatternInit
    /\ bar = 0
    /\ \E nv \in BOOLEAN : vtg_sink = BarSample(0, 0, nv)

NextHBars == HBarsIdle \/ HBarsRun

SpecHBars == InitHBars /\ [][NextHBars]_vars

\* ======================================================================= claims

\* C1 (as claimed): ready is low on every cycle of a read, from the cycle
\* after start is sampled in IDLE (the first READ cycle) up to and including
\* the ack cycle, and rises again only at the clock edge of the ack cycle.
C1_ReadyLowWhileReading ==
    /\ [](reader_state = "READ" => ~ready)
    /\ [][(~ready /\ ready') => (reader_state = "READ" /\ bus_ack)]_vars

\* C2: data takes the value of bus.dat_r at the clock edge of a READ cycle
\* with ack, and keeps its value at every other clock edge.
C2_DataCapturedOnAck ==
    [][/\ (reader_state = "READ" /\ bus_ack) => data' = bus_dat_r
       /\ ~(reader_state = "READ" /\ bus_ack) => data' = data]_vars

\* A read has completed and captured a word other than the reset value.
C2_Witness == reader_state = "IDLE" /\ ready /\ data = MaxData

\* C3: stb and cyc are asserted exactly in READ; in READ the bus address is
\* addr >> 2, all four byte selects are set and we is 0; we is never
\* asserted; the FSM leaves IDLE only at the edge of a cycle with start high.
C3_BusRequest ==
    /\ [](/\ bus_stb <=> reader_state = "READ"
          /\ bus_cyc <=> reader_state = "READ"
          /\ reader_state = "READ" => (bus_adr = addr \div 4 /\ bus_sel = 15)
          /\ ~bus_we)
    /\ [][(reader_state = "IDLE" /\ reader_state' # "IDLE") => start]_vars

\* A request is on the bus for an address whose two low bits are dropped.
C3_Witness == reader_state = "READ" /\ bus_stb /\ addr = MaxAddr /\ bus_adr # addr

\* C4: in READ the FSM stays in READ (strobe and cycle asserted) at every edge
\* without ack and is in IDLE after the edge of the first cycle with ack; with
\* no ack it never leaves READ; on a bus that acknowledges again and again
\* every read returns to IDLE with ready high.
C4_ReadUntilAck ==
    /\ [][reader_state = "READ" =>
            reader_state' = (IF bus_ack THEN "IDLE" ELSE "READ")]_vars
    /\ [](reader_state = "READ" => (bus_stb /\ bus_cyc))
    /\ (reader_state = "READ") ~> (reader_state = "IDLE" /\ ready)

\* The reader has waited at least one READ cycle and the bus still withholds ack.
C4_Witness == reader_state = "READ" /\ ~ready /\ ~bus_ack

\* C5: source.valid is asserted only in RUN; in IDLE it is 0 whatever the input.
C5_ValidOnlyInRun ==
    /\ source_valid => fsm_state = "RUN"
    /\ fsm_state = "IDLE" => ~source_valid

\* Some cycles after reset the gate is in IDLE while the input offers a valid
\* sample to a ready sink.
C5_Witness ==
    fsm_state = "IDLE" /\ enable /\ vtg_sink.valid /\ source_ready /\ ~source_valid

\* C6: the gate starts in IDLE; in IDLE vtg_sink.ready is 1 whatever
\* source.ready is; an edge takes the gate from IDLE to RUN iff in that cycle
\* enable is high and the input has valid && first && hcount == 0 && vcount == 0.
C6_Activation ==
    /\ fsm_state = "IDLE"
    /\ [](fsm_state = "IDLE" => vtg_sink_ready)
    /\ [][fsm_state = "IDLE" =>
            ((fsm_state' = "RUN") <=>
             (self_enable /\ vtg_sink.valid /\ vtg_sink.first
              /\ vtg_sink.hcount = 0 /\ vtg_sink.vcount = 0))]_vars

\* The gate has just gone from IDLE to RUN.
C6_Witness == fsm_state = "RUN" /\ fresh

\* C7: in RUN the output valid, last, de, hsync and vsync equal the input's.
C7_PassThrough ==
    fsm_state = "RUN" =>
        /\ source_valid = vtg_sink.valid
        /\ source_last  = vtg_sink.last
        /\ source_de    = vtg_sink.de
        /\ source_hsync = vtg_sink.hsync
        /\ source_vsync = vtg_sink.vsync

\* In RUN with every one of the five input fields high.
C7_Witness ==
    /\ fsm_state = "RUN"
    /\ vtg_sink.valid /\ vtg_sink.last /\ vtg_sink.de /\ vtg_sink.hsync /\ vtg_sink.vsync
    /\ source_valid /\ source_vsync

\* C8 (as claimed): on a pass-through cycle (gated module in RUN,
\* TilemapRenderer always) source.first = vtg_sink.first and
\* source.last = vtg_sink.last.
C8_FramingForwarded ==
    /\ fsm_state = "RUN" =>
          (source_first = vtg_sink.first /\ source_last = vtg_sink.last)
    /\ tilemap_source_first = vtg_sink.first
    /\ tilemap_source_last = vtg_sink.last

\* C8 (amended): on a pass-through cycle source.last = vtg_sink.last, and
\* source.first is not forwarded: it is 0 whatever vtg_sink.first is.
C8_LastForwardedFirstNot ==
    /\ fsm_state = "RUN" => (source_last = vtg_sink.last /\ ~source_first)
    /\ tilemap_source_last = vtg_sink.last
    /\ ~tilemap_source_first

\* A pass-through cycle whose input carries both framing flags.
C8_Witness ==
    /\ fsm_state = "RUN" /\ vtg_sink.valid /\ vtg_sink.first /\ vtg_sink.last
    /\ source_last /\ tilemap_source_last

\* C9 (as claimed): fed by the timing source, the first sample a gated module
\* emits after an IDLE-to-RUN transition is the frame-start sample (0, 0).
C9_FirstEmittedIsFrameStart ==
    (fresh /\ OutputTransfer) => (vtg_sink.hcount = 0 /\ vtg_sink.vcount = 0)

\* C10: in RUN vtg_sink.ready = source.ready, so a sample is taken from the
\* input exactly on the cycles where a sample is handed to the sink.
C10_ReadyPassedUpstream ==
    fsm_state = "RUN" =>
        /\ vtg_sink_ready = source_ready
        /\ InputTransfer <=> OutputTransfer

\* In RUN a valid sample is stalled by the sink: no transfer on either side.
C10_Witness ==
    fsm_state = "RUN" /\ vtg_sink.valid /\ ~source_ready /\ ~InputTransfer

\* C11 (as claimed): a cycle with enable low forces the gate to IDLE at its
\* clock edge, from any state and whatever the input sample is, and no valid
\* output sample is emitted from the moment enable is low: not in a cycle
\* with enable low, and not afterwards until an edge with enable high and a
\* frame-start sample.
C11_NoOutputOnceDisabled ==
    /\ [][~self_enable => fsm_state' = "IDLE"]_vars
    /\ [](~self_enable => ~source_valid)
    /\ [][(fsm_state = "IDLE"
           /\ ~(self_enable /\ vtg_sink.valid /\ vtg_sink.first
                /\ vtg_sink.hcount = 0 /\ vtg_sink.vcount = 0))
          => ~source_valid']_vars

\* C11 (amended): a cycle with enable low forces the gate to IDLE at its clock
\* edge, from any state and whatever the input sample is, and no valid output
\* sample is emitted from the following cycle on, until an edge with enable
\* high and a frame-start sample.  (In the cycle in which enable goes low the
\* gate is still in RUN and still passes valid through.)
C11_NoOutputAfterDisableEdge ==
    /\ [][~self_enable => (fsm_state' = "IDLE" /\ ~source_valid')]_vars
    /\ [][(fsm_state = "IDLE"
           /\ ~(self_enable /\ vtg_sink.valid /\ vtg_sink.first
                /\ vtg_sink.hcount = 0 /\ vtg_sink.vcount = 0))
          => (fsm_state' = "IDLE" /\ ~source_valid')]_vars

\* enable was high two edges ago and low at the last edge: the gate is in
\* IDLE, enable is still low and the input offers a frame-start sample.
C11_Witness ==
    /\ fsm_state = "IDLE" /\ ~self_enable
    /\ multireg = <<FALSE, TRUE>>
    /\ FrameStart(vtg_sink)

\* C12 (as claimed): fed by the timing source, under any enable toggling, a
\* frame of which a sample is emitted is emitted whole: a sample is emitted
\* only when every earlier sample of its frame was emitted, and when the
\* frame ends either none or all of its samples were emitted.
C12_NoPartialFrame ==
    /\ [](OutputTransfer => frame_emitted = SampleIndex(vtg_sink))
    /\ [][(InputTransfer /\ EndOfFrame(vtg_sink)) =>
            (frame_emitted + (IF OutputTransfer THEN 1 ELSE 0)) \in {0, FrameSize}]_vars

\* C13 (as claimed): the FSM reset is driven from the output of the two-register
\* synchronizer, so in every cycle it is the complement of the enable value
\* sampled two clock edges earlier, never of the raw enable of the same cycle.
C13_ResetFromSynchronizer == fsm_reset = ~enable

\* C14: from x = 0, y = 0, dir_x = dir_y = 1 and under any vsync sequence the
\* sprite position stays within 0..hres-SPRITE_W and 0..vres-SPRITE_H, for the
\* 16x16 sprite of MovingSpritePattern and the 64x64 sprite of
\* MovingSpritePatternFromFile at 640x480: the position registers never wrap.
C14_PositionInRange ==
    /\ 0 <= sprite_x /\ sprite_x <= hres - SPRITE_W
    /\ 0 <= sprite_y /\ sprite_y <= vres - SPRITE_H

\* The sprite has reached its rightmost position and turned round there,
\* while it has also moved down.
C14_Witness ==
    /\ sprite_x + SPRITE_W = hres - 1 /\ ~dir_x
    /\ sprite_y > 0

\* The colour of the sprite ROM word at an address, as the three channels.
ColourAt(a) == <<Slice(SpriteData(a), 16, 24), Slice(SpriteData(a), 8, 16), Slice(SpriteData(a), 0, 8)>>

\* C15: on every cycle in RUN with a valid sample whose coordinate lies inside
\* the sprite rectangle, the colour emitted is the ROM entry at
\* (vcount - y) * SPRITE_W + (hcount - x) of that same cycle's coordinate.
C15_ColourOfSameSample ==
    (fsm_state = "RUN" /\ source_valid /\ sprite_visible) =>
        sprite_source_rgb =
            ColourAt((vtg_sink.vcount - sprite_y) * SPRITE_W + (vtg_sink.hcount - sprite_x))

\* C16: on every cycle in RUN whose coordinate lies outside the sprite
\* rectangle the emitted colour is (0,0,0), and on every cycle the address
\* driven to the sprite ROM is within 0..SPRITE_W*SPRITE_H-1.
C16_BlackOutsideAddressInRange ==
    /\ (fsm_state = "RUN" /\ ~sprite_visible) => sprite_source_rgb = <<0, 0, 0>>
    /\ sprite_port_adr \in 0..(SPRITE_W * SPRITE_H - 1)

\* A valid sample left of the moved sprite is passed on in RUN while the ROM
\* port presents a coloured word, and the unclamped offset has wrapped.
C16_Witness ==
    /\ fsm_state = "RUN" /\ source_valid
    /\ ~sprite_visible
    /\ sprite_port_dat_r # 0
    /\ ~geom.fromFile
    /\ vtg_sink.hcount < sprite_x
    /\ sprite_port_adr # 0

\* The tile ROM address the renderer is to produce for a coordinate.
RomAddress(c) ==
    tilemap_data[(c.v \div tile_h) * tiles_x + (c.h \div tile_w) + 1] * tile_w * tile_h
    + (c.v % tile_h) * tile_w + (c.h % tile_w)

InScreen(c) == c.h < tiles_x * tile_w /\ c.v < tiles_y * tile_h

\* C17: the tile index and the pixel row/column combined into the tile ROM
\* address of a cycle derive from one input coordinate: once this cycle, with
\* a valid sample, and the TileLag cycles before it all presented coordinates
\* of the screen, the address driven is the address of one of those
\* coordinates.
C17_AddressOfOneCoordinate ==
    (/\ vtg_sink.valid
     /\ Len(coord_hist) = TileLag
     /\ \A k \in 1..Len(CoordWindow) : InScreen(CoordWindow[k]))
    => \E k \in 1..Len(CoordWindow) : tile_rom_port_adr = RomAddress(CoordWindow[k])

\* C18: on every cycle, blanking coordinates included, the tilemap address is
\* below tilesX*tilesY and, the registered tile index being one of the
\* tilemap's, the tile ROM address is below tileW*tileH*tileCount.
C18_AddressesInRange ==
    /\ tilemap_addr < tiles_x * tiles_y
    /\ tile_id < TileCount => tile_rom_port_adr < tile_w * tile_h * TileCount

\* Stripes whose boundary is satisfied by the pixel.
Satisfied == {i \in 0..(NStripes - 1) : boundary[i + 1] <= bars_hcount}

HighestOf(S) == CHOOSE i \in S : \A j \in S : j <= i

BoundariesSorted == \A i \in 1..(NStripes - 1) : boundary[i] <= boundary[i + 1]

\* C19 as claimed: for every boundary configuration, unsorted ones included,
\* and every hcount, the scanned index is the unique stripe index that
\* maximizes boundary[i] subject to boundary[i] <= hcount.
C19_UniqueMaximizer ==
    /\ barIndex \in Satisfied
    /\ \A j \in Satisfied \ {barIndex} : boundary[j + 1] < boundary[barIndex + 1]

\* C19 amended: the scanned index is the highest stripe index whose boundary
\* is satisfied (stripe 0 when none is); when the boundaries are in
\* non-decreasing order and some boundary is satisfied, it is a maximizer of
\* boundary[i] subject to boundary[i] <= hcount, the highest-indexed one.
C19_LastSatisfiedBoundary ==
    /\ barIndex = IF Satisfied = {} THEN 0 ELSE HighestOf(Satisfied)
    /\ (BoundariesSorted /\ Satisfied # {}) =>
            \A j \in Satisfied :
                /\ boundary[j + 1] <= boundary[barIndex + 1]
                /\ boundary[j + 1] = boundary[barIndex + 1] => j <= barIndex

\* After run-time writes the boundaries are out of order and the pixel lies
\* right of a lower-indexed boundary greater than the selected stripe's.
C19_Witness ==
    /\ ~BoundariesSorted
    /\ boundary # DefaultBoundary
    /\ barIndex \in Satisfied
    /\ \E j \in Satisfied : boundary[j + 1] > boundary[barIndex + 1]

\* C20: the line written for an RGB triple is six lowercase hex digits and a
\* newline, and parsing it back yields (r << 16) | (g << 8) | b, whose bit
\* fields [16:24], [8:16], [0:8] are r, g, b.
C20_HexRoundTrip ==
    /\ mem_line # <<>> =>
            /\ Len(mem_line) = 7
            /\ mem_line[7] = "\n"
            /\ \A i \in 1..6 : \E d \in 1..16 : mem_line[i] = HexDigits[d]
    /\ sprite_word # -1 =>
            /\ sprite_word = px[1] * 65536 + px[2] * 256 + px[3]
            /\ Slice(sprite_word, 16, 24) = px[1]
            /\ Slice(sprite_word, 8, 16) = px[2]
            /\ Slice(sprite_word, 0, 8) = px[3]

\* A pixel whose line needs zero padding and letter digits has been written
\* and read back.
C20_Witness ==
    /\ px = <<0, 171, 15>>
    /\ mem_line = <<"0", "0", "a", "b", "0", "f", "\n">>
    /\ sprite_word = 43791

\* The bounce rule of one axis, the far-edge test left open: the values
\* after the edge against the values before it.
BounceRule(pos, dir, posNext, dirNext, atFarEdge) ==
    IF dir
    THEN IF atFarEdge
         THEN posNext = pos /\ dirNext = FALSE
         ELSE posNext = pos + 1 /\ dirNext = TRUE
    ELSE IF pos = 0
         THEN posNext = pos /\ dirNext = TRUE
         ELSE posNext = pos - 1 /\ dirNext = FALSE

\* C21 as claimed: on each detected vsync rising edge an increasing axis
\* turns round without moving when position + 1 >= screenDim - spriteDim - 1
\* and otherwise advances by exactly 1; a decreasing axis turns round at 0
\* and otherwise steps back by exactly 1.
C21_BounceBeforeAdvance ==
    [][vsync_rise =>
        /\ BounceRule(sprite_x, dir_x, sprite_x', dir_x',
                      sprite_x + 1 >= hres - SPRITE_W - 1)
        /\ BounceRule(sprite_y, dir_y, sprite_y', dir_y',
                      sprite_y + 1 >= vres - SPRITE_H - 1)]_vars

\* C21 amended: the increasing axis turns round when the position itself is
\* at or beyond screenDim - spriteDim - 1.
C21_BounceAtLimit ==
    [][vsync_rise =>
        /\ BounceRule(sprite_x, dir_x, sprite_x', dir_x',
                      sprite_x >= hres - SPRITE_W - 1)
        /\ BounceRule(sprite_y, dir_y, sprite_y', dir_y',
                      sprite_y >= vres - SPRITE_H - 1)]_vars

\* The vertical axis has advanced onto its limit, one past the position at
\* which the claim as written turns it round, and is still increasing.
C21_Witness ==
    /\ sprite_y = vres - SPRITE_H - 1
    /\ dir_y
    /\ sprite_x > 0

\* C22: x, y, dir_x, dir_y change only at a clock edge of a cycle with vsync
\* high and the previous cycle's vsync low, whatever valid, ready, enable and
\* the gate state are; at such an edge, on each axis exactly one of position
\* and direction changes.
C22_MovesOncePerVsyncEdge ==
    [][IF vtg_sink.vsync /\ ~vsync_prev
       THEN /\ (sprite_x' # sprite_x) <=> (dir_x' = dir_x)
            /\ (sprite_y' # sprite_y) <=> (dir_y' = dir_y)
       ELSE UNCHANGED <<sprite_x, sprite_y, dir_x, dir_y>>]_vars

\* vsync has been high for more than one cycle, the sprite has moved once,
\* and the gate is in RUN with enable low and the stream stalled.
C22_Witness ==
    /\ vtg_sink.vsync /\ vsync_prev
    /\ sprite_x = 1 /\ sprite_y = 1
    /\ fsm_state = "RUN" /\ ~self_enable
    /\ vtg_sink.valid /\ ~source_ready

\* C23: throughout one read the address on the bus is the address requested
\* at the start pulse shifted right by 2: the first READ cycle carries the
\* address of the cycle in which start was accepted, and the bus address
\* does not change from one READ cycle to the next.
C23_AddressHeldDuringRead ==
    /\ [][(reader_state = "IDLE" /\ start) => bus_adr' = Shr(addr, 2)]_vars
    /\ [][(reader_state = "READ" /\ reader_state' = "READ") => bus_adr' = bus_adr]_vars

\* C24: a bus read begins (the FSM goes from IDLE to READ) at exactly the
\* clock edges of the cycles with the FSM in IDLE and start high; in READ
\* start is not looked at: the FSM stays in READ until ack and then returns
\* to IDLE, so a start seen in READ, the cycle of ack included, begins
\* nothing then or later.
C24_StartSampledOnlyInIdle ==
    /\ [][reader_state' = "READ" <=>
            \/ reader_state = "IDLE" /\ start
            \/ reader_state = "READ" /\ ~bus_ack]_vars
    /\ [][(reader_state = "READ" /\ bus_ack) => (reader_state' = "IDLE" /\ ~bus_stb')]_vars
    /\ [][(reader_state = "IDLE" /\ ~start) => (reader_state' = "IDLE" /\ ~bus_stb')]_vars

\* A start pulse arrives in the cycle of ack of a read that has been waiting.
C24_Witness ==
    /\ reader_state = "READ" /\ ~ready
    /\ start /\ bus_ack


\* C25: under any input with infinitely many vsync rising edges, on each axis
\* the position reaches its upper extreme (screenDim - spriteDim - 1) and 0
\* infinitely often and the direction flips infinitely often.
C25_BounceForever ==
    []<>vsync_rise =>
        /\ []<>(sprite_x = hres - SPRITE_W - 1) /\ []<>(sprite_x = 0)
        /\ []<>dir_x /\ []<>~dir_x
        /\ []<>(sprite_y = vres - SPRITE_H - 1) /\ []<>(sprite_y = 0)
        /\ []<>dir_y /\ []<>~dir_y

\* The sprite is back at the left edge after a traverse and a vsync rising
\* edge is about to turn it round again.
C25_Witness ==
    /\ sprite_x = 0 /\ ~dir_x
    /\ vsync_rise

\* C26: with a timing source that keeps offering valid samples and cycles
\* through whole frames, a gate in IDLE eventually enters RUN unless enable
\* drops, whatever source.ready does, and a gate in RUN with enable high is
\* in RUN after the clock edge.
C26_GateEventuallyRuns ==
    /\ (fsm_state = "IDLE") ~> (fsm_state = "RUN" \/ ~self_enable)
    /\ [][(fsm_state = "RUN" /\ self_enable) => fsm_state' = "RUN"]_vars

\* The gate waits in IDLE in the middle of a frame with enable high while the
\* downstream is not ready.
C26_Witness ==
    /\ fsm_state = "IDLE" /\ self_enable /\ ~source_ready
    /\ vtg_sink.valid /\ vtg_sink.hcount = 1 /\ vtg_sink.vcount = 1

\* C27 (as claimed): on every cycle in RUN where an active sample is
\* transferred, the colour emitted with it is color_bar[(vcount >> 3) mod 8]
\* for that sample's own vcount.
C27_ColourOfOwnLine ==
    (fsm_state = "RUN" /\ source_valid /\ source_ready /\ source_de)
        => hbars_source_rgb = color_bar[(Shr(vtg_sink.vcount, 3) % 8) + 1]
====
